---------------------------- MODULE Spec2Model ----------------------------
(***************************************************************************)
(* Model of boxes/generators/displayshelf.py (class DisplayShelf).         *)
(*                                                                         *)
(* One behaviour is one run of DisplayShelf.render on one configuration.   *)
(* Lengths are Python floats in the source; here they are fixed-point      *)
(* numbers, a length of v millimetres being the integer v * Scale.         *)
(* Angles are whole degrees; math.radians followed by math.sin, math.cos   *)
(* or math.tan is a table over the angles the model draws.  The angles     *)
(* +-90 are not drawn: in IEEE doubles cos(radians(90)) is 6.1e-17, not 0, *)
(* which the fixed-point numbers cannot represent.                         *)
(***************************************************************************)
EXTENDS Integers, Sequences, FiniteSets

\* Fixed-point resolution: Scale units per millimetre.
Scale == 1000

\* Largest shelf count the model draws.
MaxNum == 3

Abs(v) == IF v < 0 THEN -v ELSE v

Max(a, b) == IF a >= b THEN a ELSE b

\* a / b on floats: the quotient rounded to the nearest representable value.
RDiv(a, b) ==
    LET n == IF b < 0 THEN -a ELSE a
        d == Abs(b)
    IN  IF n >= 0 THEN (2 * n + d) \div (2 * d)
                  ELSE -((2 * (-n) + d) \div (2 * d))

\* a * b on floats (both fixed-point).  The product is formed from the
\* millimetre part and the fractional part of a, which keeps every
\* intermediate value inside TLC's integers.
Mul(a, b) ==
    LET s  == IF (a < 0) = (b < 0) THEN 1 ELSE -1
        aa == Abs(a)
        bb == Abs(b)
        q  == aa \div Scale
        r  == aa % Scale
    IN  s * (q * bb + RDiv(r * bb, Scale))

\* v ** 2
Sq(v) == Mul(v, v)

RECURSIVE SqrtSearch(_, _, _)
SqrtSearch(v, lo, hi) ==
    IF lo >= hi THEN lo
    ELSE LET mid == (lo + hi + 1) \div 2
         IN  IF Sq(mid) <= v THEN SqrtSearch(v, mid, hi)
                             ELSE SqrtSearch(v, lo, mid - 1)

\* math.sqrt(v) for v >= 0: the largest r with r ** 2 <= v.
Sqrt(v) == SqrtSearch(v, 0, 1000 * Scale)

\* math.sin(math.radians(deg)), math.cos(...), math.tan(...)
SinPos(deg) ==
    CASE deg = 0  -> 0
      [] deg = 30 -> 500
      [] deg = 45 -> 707
      [] deg = 60 -> 866

CosPos(deg) ==
    CASE deg = 0  -> 1000
      [] deg = 30 -> 866
      [] deg = 45 -> 707
      [] deg = 60 -> 500

TanPos(deg) ==
    CASE deg = 0  -> 0
      [] deg = 30 -> 577
      [] deg = 45 -> 1000
      [] deg = 60 -> 1732

Sin(deg) == IF deg < 0 THEN -SinPos(-deg) ELSE SinPos(deg)

Cos(deg) == CosPos(Abs(deg))

Tan(deg) == IF deg < 0 THEN -TanPos(-deg) ELSE TanPos(deg)

(***************************************************************************)
(* The configurations of a run: the arguments of __init__'s parser.        *)
(***************************************************************************)
Angles == {-45, -30, 0, 30, 45}

Widths == {400 * Scale}

Depths == {Scale \div 2, 100 * Scale, 120 * Scale}

Heights == {40 * Scale, 300 * Scale}

Thicknesses == {3 * Scale}

FrontWallHeights == {0, 20 * Scale}

Configurations ==
    [x : Widths, y : Depths, h : Heights, thickness : Thicknesses,
     num : 0 .. MaxNum, front_wall_height : FrontWallHeights,
     angle : Angles, include_back : BOOLEAN, slope_top : BOOLEAN,
     outside : BOOLEAN]

VARIABLES
    cfg,     \* self.x, self.y, self.h, self.thickness, self.num, ... of the run
    pc,      \* position of the run inside render
    lx,      \* render's local x
    ly,      \* render's local y
    sl,      \* self.sl
    i,       \* index of generate_shelves' loop
    panels,  \* the panels emitted so far, in order
    err      \* the exception render ended with, "" when none

vars == <<cfg, pc, lx, ly, sl, i, panels, err>>

(***************************************************************************)
(* Boxes.adjustSize(l): an outer measure less the two walls it spans.      *)
(* The framework's method is not part of displayshelf.py.                  *)
(***************************************************************************)
adjustSize(l, t) == l - 2 * t

(***************************************************************************)
(* render, lines 101-111: the local dimensions and the slant length.       *)
(***************************************************************************)
ResolveX(c) == IF c.outside THEN adjustSize(c.x, c.thickness) ELSE c.x

\* Mutation of ResolveY: the depth adjusted whenever outside is set.
ResolveYWheneverOutside(c) ==
    IF c.outside THEN adjustSize(c.y, c.thickness) ELSE c.y

ResolveY(c) ==
    IF c.outside /\ c.include_back THEN adjustSize(c.y, c.thickness) ELSE c.y

\* self.sl = (y - (thickness * (cos(a) + abs(sin(a)))) - max(0, sin(a) * front)) / cos(a)
SlantLength(c, y) ==
    RDiv((y - Mul(c.thickness, Cos(c.angle) + Abs(Sin(c.angle)))
            - Max(0, Mul(Sin(c.angle), c.front_wall_height))) * Scale,
         Cos(c.angle))

(***************************************************************************)
(* generate_finger_holes, lines 46-58.  A request is one call of           *)
(* fingerHolesAt(x, y, length, angle).                                     *)
(***************************************************************************)
\* hs = (self.sl+t) * math.sin(a) + math.cos(a) * t
Hs(t, ang, slv) == Mul(slv + t, Sin(ang)) + Mul(Cos(ang), t)

\* pos_x = abs(0.5*t*math.sin(a))
PosX(t, ang) == Abs(Mul(RDiv(t, 2), Sin(ang)))

\* Mutation of PosYBase: the step divided by num instead of num - 0.5.
PosYBaseDividedByNum(t, ang, slv, hv, n, idx) ==
    Hs(t, ang, slv) - RDiv(Mul(Cos(ang), t), 2)
        + RDiv(idx * (hv - Abs(Hs(t, ang, slv))), n)

\* pos_y before the correction of line 53-54
PosYBase(t, ang, slv, hv, n, idx) ==
    Hs(t, ang, slv) - RDiv(Mul(Cos(ang), t), 2)
        + RDiv(2 * idx * (hv - Abs(Hs(t, ang, slv))), 2 * n - 1)

\* Mutation of PosY: the correction for negative angles left out.
PosYUncorrected(t, ang, slv, hv, n, idx) ==
    PosYBase(t, ang, slv, hv, n, idx)

\* if a < 0: pos_y += -math.sin(a) * self.sl
PosY(t, ang, slv, hv, n, idx) ==
    IF ang < 0
    THEN PosYBase(t, ang, slv, hv, n, idx) + Mul(-Sin(ang), slv)
    ELSE PosYBase(t, ang, slv, hv, n, idx)

\* pos_x += math.cos(-a) * (self.sl+0.5*t) + math.sin(a)*0.5*t
LipPosX(t, ang, slv) ==
    PosX(t, ang) + Mul(Cos(-ang), slv + RDiv(t, 2)) + RDiv(Mul(Sin(ang), t), 2)

\* pos_y += math.sin(-a) * (self.sl+0.5*t) + math.cos(a)*0.5*t
LipPosY(t, ang, slv, hv, n, idx) ==
    PosY(t, ang, slv, hv, n, idx)
        + Mul(Sin(-ang), slv + RDiv(t, 2)) + RDiv(Mul(Cos(ang), t), 2)

\* The two requests of loop index idx, in the order they are issued.
HolesOfShelf(c, slv, idx) ==
    << [x |-> PosX(c.thickness, c.angle),
        y |-> PosY(c.thickness, c.angle, slv, c.h, c.num, idx),
        length |-> slv, angle |-> -c.angle],
       [x |-> LipPosX(c.thickness, c.angle, slv),
        y |-> LipPosY(c.thickness, c.angle, slv, c.h, c.num, idx),
        length |-> c.front_wall_height, angle |-> 90 - c.angle] >>

\* Mutation of FingerHoles: the lip seat skipped when its length is 0.
FingerHolesSkippingEmptyLip(c, slv) ==
    IF c.front_wall_height = 0
    THEN [k \in 1 .. c.num |-> HolesOfShelf(c, slv, k - 1)[1]]
    ELSE [k \in 1 .. 2 * c.num |->
             HolesOfShelf(c, slv, (k - 1) \div 2)[((k - 1) % 2) + 1]]

\* for i in range(self.num): every request of one call of the callback
FingerHoles(c, slv) ==
    [k \in 1 .. 2 * c.num |->
        HolesOfShelf(c, slv, (k - 1) \div 2)[((k - 1) % 2) + 1]]

(***************************************************************************)
(* generate_sloped_sides, lines 60-81.                                     *)
(***************************************************************************)
\* The two divisions of lines 61 and 66 raise ZeroDivisionError.
SlopedRaises(c) == c.num = 0 \/ Sin(c.angle) = 0

\* vertical_cut = height/self.num - self.front_wall_height
NaiveVerticalCut(c, height) == RDiv(height, c.num) - c.front_wall_height

\* hypotenuse = vertical_cut / math.sin(a)
NaiveHypotenuse(c, height) ==
    RDiv(NaiveVerticalCut(c, height) * Scale, Sin(c.angle))

\* horizontal_cut = math.sqrt((hypotenuse ** 2) - (vertical_cut ** 2))
NaiveHorizontalCut(c, height) ==
    Sqrt(Sq(NaiveHypotenuse(c, height)) - Sq(NaiveVerticalCut(c, height)))

\* if (horizontal_cut > width):
Shrinks(c, width, height) == NaiveHorizontalCut(c, height) > width

\* Mutation of HorizontalCut: the whole width cut away, no edge kept.
HorizontalCutNoMargin(c, width, height) ==
    IF Shrinks(c, width, height) THEN width
                                 ELSE NaiveHorizontalCut(c, height)

\* horizontal_cut = width - 1 #keep a 1mm edge on the top
HorizontalCut(c, width, height) ==
    IF Shrinks(c, width, height) THEN width - Scale
                                 ELSE NaiveHorizontalCut(c, height)

\* vertical_cut =  horizontal_cut * math.tan(a)
VerticalCut(c, width, height) ==
    IF Shrinks(c, width, height)
    THEN Mul(HorizontalCut(c, width, height), Tan(c.angle))
    ELSE NaiveVerticalCut(c, height)

\* hypotenuse = math.sqrt((horizontal_cut ** 2) + (vertical_cut ** 2))
Hypotenuse(c, width, height) ==
    IF Shrinks(c, width, height)
    THEN Sqrt(Sq(HorizontalCut(c, width, height))
                + Sq(VerticalCut(c, width, height)))
    ELSE NaiveHypotenuse(c, height)

\* top = width - horizontal_cut
TopEdge(c, width, height) == width - HorizontalCut(c, width, height)

\* front = height - vertical_cut
FrontEdge(c, width, height) == height - VerticalCut(c, width, height)

\* borders = [width, 90, front, 90-self.angle, hypotenuse, self.angle, top, 90, height, 90]
SlopedBorders(c, width, height) ==
    << width, 90, FrontEdge(c, width, height), 90 - c.angle,
       Hypotenuse(c, width, height), c.angle, TopEdge(c, width, height), 90,
       height, 90 >>

\* edges = 'eeeef' if self.include_back else 'e'
SlopedEdges(c) ==
    IF c.include_back THEN <<"e", "e", "e", "e", "f">> ELSE <<"e">>

SlopedSide(c, width, height, slv, label) ==
    [kind |-> "polygon", label |-> label, idx |-> 0,
     borders |-> SlopedBorders(c, width, height), edges |-> SlopedEdges(c),
     holes |-> FingerHoles(c, slv)]

(***************************************************************************)
(* generate_rectangular_sides, lines 83-88.                                *)
(***************************************************************************)
RectangularEdges(c) ==
    IF c.include_back THEN <<"e", "e", "e", "f">> ELSE <<"e", "e", "e", "e">>

RectangularSide(c, width, height, slv, label) ==
    [kind |-> "rect", label |-> label, idx |-> 0, w |-> width, h |-> height,
     edges |-> RectangularEdges(c), holes |-> FingerHoles(c, slv)]

\* Mutation of ShelfBoards: the front lip emitted before its shelf.
ShelfBoardsLipFirst(c, slv, idx) ==
    IF c.front_wall_height # 0
    THEN << [kind |-> "rect", label |-> "front lip", idx |-> idx + 1,
             w |-> c.x, h |-> c.front_wall_height,
             edges |-> <<"F", "f", "e", "f">>, holes |-> <<>>],
            [kind |-> "rect", label |-> "shelf", idx |-> idx + 1,
             w |-> c.x, h |-> slv, edges |-> <<"f", "f", "e", "f">>,
             holes |-> <<>>] >>
    ELSE << [kind |-> "rect", label |-> "shelf", idx |-> idx + 1,
             w |-> c.x, h |-> slv, edges |-> <<"E", "f", "e", "f">>,
             holes |-> <<>>] >>

(***************************************************************************)
(* generate_shelves, lines 90-97: the boards of loop index idx.            *)
(***************************************************************************)
ShelfBoards(c, slv, idx) ==
    IF c.front_wall_height # 0
    THEN << [kind |-> "rect", label |-> "shelf", idx |-> idx + 1,
             w |-> c.x, h |-> slv, edges |-> <<"f", "f", "e", "f">>,
             holes |-> <<>>],
            [kind |-> "rect", label |-> "front lip", idx |-> idx + 1,
             w |-> c.x, h |-> c.front_wall_height,
             edges |-> <<"F", "f", "e", "f">>, holes |-> <<>>] >>
    ELSE << [kind |-> "rect", label |-> "shelf", idx |-> idx + 1,
             w |-> c.x, h |-> slv, edges |-> <<"E", "f", "e", "f">>,
             holes |-> <<>>] >>

(***************************************************************************)
(* render, lines 121-122: the back wall.                                   *)
(***************************************************************************)
BackWall(c, x) ==
    [kind |-> "rect", label |-> "back wall", idx |-> 0, w |-> x, h |-> c.h,
     edges |-> <<"e", "F", "e", "F">>, holes |-> <<>>]

(***************************************************************************)
(* The run.                                                                *)
(***************************************************************************)
Init ==
    /\ cfg \in Configurations
    /\ pc = "resolve"
    /\ lx = 0
    /\ ly = 0
    /\ sl = 0
    /\ i = 0
    /\ panels = <<>>
    /\ err = ""

\* render, lines 101-111
Resolve ==
    /\ pc = "resolve"
    /\ lx' = ResolveX(cfg)
    /\ ly' = ResolveY(cfg)
    /\ sl' = SlantLength(cfg, ResolveY(cfg))
    /\ pc' = "left"
    /\ UNCHANGED <<cfg, i, panels, err>>

\* generate_sloped_sides, lines 61-66: a division by zero ends the run
SlopedSidesRaise ==
    /\ pc = "left"
    /\ cfg.slope_top
    /\ SlopedRaises(cfg)
    /\ pc' = "raised"
    /\ err' = "ZeroDivisionError"
    /\ UNCHANGED <<cfg, lx, ly, sl, i, panels>>

\* generate_sloped_sides, lines 61-80
SlopedLeftSide ==
    /\ pc = "left"
    /\ cfg.slope_top
    /\ ~SlopedRaises(cfg)
    /\ panels' = Append(panels, SlopedSide(cfg, ly, cfg.h, sl, "left side"))
    /\ pc' = "right"
    /\ UNCHANGED <<cfg, lx, ly, sl, i, err>>

\* generate_sloped_sides, line 81
SlopedRightSide ==
    /\ pc = "right"
    /\ cfg.slope_top
    /\ panels' = Append(panels, SlopedSide(cfg, ly, cfg.h, sl, "right side"))
    /\ pc' = "shelves"
    /\ UNCHANGED <<cfg, lx, ly, sl, i, err>>

\* generate_rectangular_sides, lines 84-87
RectangularLeftSide ==
    /\ pc = "left"
    /\ ~cfg.slope_top
    /\ panels' = Append(panels, RectangularSide(cfg, ly, cfg.h, sl, "left side"))
    /\ pc' = "right"
    /\ UNCHANGED <<cfg, lx, ly, sl, i, err>>

\* generate_rectangular_sides, line 88
RectangularRightSide ==
    /\ pc = "right"
    /\ ~cfg.slope_top
    /\ panels' = Append(panels, RectangularSide(cfg, ly, cfg.h, sl, "right side"))
    /\ pc' = "shelves"
    /\ UNCHANGED <<cfg, lx, ly, sl, i, err>>

\* generate_shelves: one iteration of the loop over range(self.num)
ShelfIteration ==
    /\ pc = "shelves"
    /\ i < cfg.num
    /\ panels' = panels \o ShelfBoards(cfg, sl, i)
    /\ i' = i + 1
    /\ UNCHANGED <<cfg, pc, lx, ly, sl, err>>

\* render, lines 121-122, include_back set
EmitBackWall ==
    /\ pc = "shelves"
    /\ i >= cfg.num
    /\ cfg.include_back
    /\ panels' = Append(panels, BackWall(cfg, lx))
    /\ pc' = "done"
    /\ UNCHANGED <<cfg, lx, ly, sl, i, err>>

\* render, line 121, include_back not set
Finish ==
    /\ pc = "shelves"
    /\ i >= cfg.num
    /\ ~cfg.include_back
    /\ pc' = "done"
    /\ UNCHANGED <<cfg, lx, ly, sl, i, panels, err>>

Next ==
    \/ Resolve
    \/ SlopedSidesRaise
    \/ SlopedLeftSide
    \/ SlopedRightSide
    \/ RectangularLeftSide
    \/ RectangularRightSide
    \/ ShelfIteration
    \/ EmitBackWall
    \/ Finish

Spec == Init /\ [][Next]_vars


(***************************************************************************)
(* render as a function of the configuration: the panels of a whole run,   *)
(* none when generate_sloped_sides raises.                                 *)
(***************************************************************************)
RECURSIVE Shelves(_, _, _)
Shelves(c, slv, n) ==
    IF n <= 0 THEN <<>>
    ELSE Shelves(c, slv, n - 1) \o ShelfBoards(c, slv, n - 1)

RunPanels(c) ==
    LET y   == ResolveY(c)
        slv == SlantLength(c, y)
    IN  IF c.slope_top /\ SlopedRaises(c) THEN <<>>
        ELSE (IF c.slope_top
              THEN << SlopedSide(c, y, c.h, slv, "left side"),
                      SlopedSide(c, y, c.h, slv, "right side") >>
              ELSE << RectangularSide(c, y, c.h, slv, "left side"),
                      RectangularSide(c, y, c.h, slv, "right side") >>)
             \o Shelves(c, slv, c.num)
             \o (IF c.include_back THEN << BackWall(c, ResolveX(c)) >>
                                   ELSE <<>>)

(***************************************************************************)
(* Vocabulary of the properties.                                           *)
(***************************************************************************)
Ended == pc \in {"done", "raised"}

Emitted(label) == {k \in DOMAIN panels : panels[k].label = label}

Sides == Emitted("left side") \cup Emitted("right side")

Boards == Emitted("shelf") \cup Emitted("front lip")

TypeOK ==
    /\ cfg \in Configurations
    /\ pc \in {"resolve", "left", "right", "shelves", "done", "raised"}
    /\ i \in 0 .. cfg.num
    /\ err \in {"", "ZeroDivisionError"}
    /\ (pc = "raised") = (err # "")

\* The step-by-step run and render as a function agree on the result.
RunAgreement == Ended => panels = RunPanels(cfg)


(***************************************************************************)
(* C1.  For every valid configuration (num >= 1, cos(radians) # 0,         *)
(* slant_length > 0), a run of render emits exactly num shelf boards, and  *)
(* exactly num front-lip boards when front_wall_height > 0 and none when   *)
(* it is 0, whatever angle, slope_top and include_back are.                *)
(***************************************************************************)
InvalidConfiguration(c) ==
    \/ c.num < 1
    \/ Cos(c.angle) = 0
    \/ SlantLength(c, ResolveY(c)) <= 0

C1_ShelfAndLipCount ==
    (Ended /\ ~InvalidConfiguration(cfg)) =>
        /\ Cardinality(Emitted("shelf")) = cfg.num
        /\ Cardinality(Emitted("front lip")) =
               IF cfg.front_wall_height > 0 THEN cfg.num ELSE 0

(***************************************************************************)
(* C2.  The panels are emitted in the fixed order left side, right side,   *)
(* then for i = 1..num shelf i immediately followed by front lip i (lips   *)
(* only when front_wall_height > 0), then the back wall (only when         *)
(* include_back): at every point of a run the panels emitted so far are a  *)
(* prefix of that list, and a run that returns has emitted all of it.      *)
(***************************************************************************)
RECURSIVE BoardOrder(_, _)
BoardOrder(n, lips) ==
    IF n <= 0 THEN <<>>
    ELSE BoardOrder(n - 1, lips)
            \o (IF lips THEN << <<"shelf", n>>, <<"front lip", n>> >>
                        ELSE << <<"shelf", n>> >>)

FixedOrder ==
    << <<"left side", 0>>, <<"right side", 0>> >>
        \o BoardOrder(cfg.num, cfg.front_wall_height > 0)
        \o (IF cfg.include_back THEN << <<"back wall", 0>> >> ELSE <<>>)

C2_FixedPanelOrder ==
    /\ Len(panels) <= Len(FixedOrder)
    /\ \A k \in DOMAIN panels :
           <<panels[k].label, panels[k].idx>> = FixedOrder[k]
    /\ (pc = "done") => Len(panels) = Len(FixedOrder)

C2_Witness ==
    /\ pc = "done"
    /\ cfg.slope_top
    /\ cfg.include_back
    /\ cfg.front_wall_height > 0
    /\ cfg.num >= 2
    /\ Len(panels) = 3 + 2 * cfg.num

C4_InvalidConfigurationRejected ==
    /\ (Ended /\ InvalidConfiguration(cfg)) =>
           (pc = "raised" /\ panels = <<>>)
    /\ (pc = "raised") => panels = <<>>

(***************************************************************************)
(* C5.  As claimed, on valid configurations: in sloped mode, when the      *)
(* naive horizontal_cut exceeds the panel width the fallback does not      *)
(* raise and the top edge of the emitted silhouette is exactly width - 1   *)
(* long; in every sloped run the top edge is neither negative nor longer   *)
(* than width.                                                             *)
(***************************************************************************)
SlopedRun == cfg.slope_top /\ pc # "resolve" /\ ~SlopedRaises(cfg)

Fallback == SlopedRun /\ Shrinks(cfg, ly, cfg.h)

C5_TopEdgeIsWidthMinusOne ==
    ~InvalidConfiguration(cfg) =>
        /\ Fallback =>
               /\ pc # "raised"
               /\ \A k \in Sides : panels[k].borders[7] = ly - Scale
        /\ SlopedRun =>
               \A k \in Sides : /\ panels[k].borders[7] >= 0
                                /\ panels[k].borders[7] <= ly

(***************************************************************************)
(* C5, amended.  In sloped mode, when the naive horizontal_cut exceeds     *)
(* the panel width the fallback does not raise, the horizontal cut is      *)
(* width - 1 and the top edge of the emitted silhouette is exactly 1       *)
(* long; in every sloped run that emits its side panels the top edge is    *)
(* not negative, and it is not longer than width when width >= 1.          *)
(***************************************************************************)
C5_TopEdgeIsOne ==
    /\ Fallback =>
           /\ pc # "raised"
           /\ \A k \in Sides :
                  /\ panels[k].borders[7] = Scale
                  /\ panels[k].borders[1] - panels[k].borders[7] = ly - Scale
    /\ SlopedRun =>
           \A k \in Sides :
               /\ panels[k].borders[7] >= 0
               /\ (ly >= Scale) => panels[k].borders[7] <= ly

C5_Witness ==
    /\ Fallback
    /\ pc = "done"
    /\ ly > 2 * Scale
    /\ Cardinality(Sides) = 2
    /\ \A k \in Sides : panels[k].borders[7] = Scale

(***************************************************************************)
(* C6.  On valid configurations, every emitted shelf board and front-lip   *)
(* board is as wide as the interior width x that the back panel is given:  *)
(* the requested width less the thickness adjustment when outside is set,  *)
(* the requested width itself when it is not.                              *)
(***************************************************************************)
C6_BoardWidthIsInteriorWidth ==
    ~InvalidConfiguration(cfg) =>
        \A k \in Boards :
            /\ panels[k].w = lx
            /\ panels[k].w = IF cfg.outside
                             THEN adjustSize(cfg.x, cfg.thickness) ELSE cfg.x

(***************************************************************************)
(* C7.  On valid configurations: against the run of the same              *)
(* configuration with include_back unset, a run with include_back set      *)
(* emits exactly one more panel, x by h with its two F edges on opposite   *)
(* sides, and each side panel has exactly one edge f that is e in the      *)
(* other run, every other edge of the side panels being e in both; in      *)
(* rectangular and in sloped mode.                                         *)
(***************************************************************************)
\* Edge number n of a wall given the string edges: a polygon given a
\* shorter string than it has edges repeats it.
EdgeOf(edges, n) == edges[((n - 1) % Len(edges)) + 1]

EdgeCount(p) == IF p.kind = "polygon" THEN Len(p.borders) \div 2 ELSE 4

C7_BackAddsOnePanelAndOneEdge ==
    (Ended /\ cfg.include_back /\ ~InvalidConfiguration(cfg)) =>
        LET other == RunPanels([cfg EXCEPT !.include_back = FALSE])
            back  == panels[Len(panels)]
        IN  /\ Len(panels) = Len(other) + 1
            /\ back.label = "back wall"
            /\ back.w = lx /\ back.h = cfg.h
            /\ {n \in 1 .. 4 : back.edges[n] = "F"} \in {{1, 3}, {2, 4}}
            /\ \A k \in Sides :
                   /\ other[k].label = panels[k].label
                   /\ Cardinality({n \in 1 .. EdgeCount(panels[k]) :
                          /\ EdgeOf(panels[k].edges, n) = "f"
                          /\ EdgeOf(other[k].edges, n) = "e"}) = 1
                   /\ \A n \in 1 .. EdgeCount(panels[k]) :
                          /\ EdgeOf(other[k].edges, n) = "e"
                          /\ EdgeOf(panels[k].edges, n) \in {"e", "f"}
            /\ Cardinality(Sides) = 2

(***************************************************************************)
(* C8.  In rectangular mode both side panels are rectangles of width by    *)
(* height, height being h and width the depth y, adjusted for the          *)
(* thickness only when outside and include_back are both set; neither      *)
(* depends on angle, num or front_wall_height, and the left and the right  *)
(* panel have the same dimensions and edge types.                          *)
(***************************************************************************)
C8_RectangularSideDimensions ==
    ~cfg.slope_top =>
        /\ \A k \in Sides :
               /\ panels[k].kind = "rect"
               /\ panels[k].h = cfg.h
               /\ panels[k].w = IF cfg.outside /\ cfg.include_back
                                THEN adjustSize(cfg.y, cfg.thickness)
                                ELSE cfg.y
        /\ \A j \in Emitted("left side") : \A k \in Emitted("right side") :
               /\ panels[j].w = panels[k].w
               /\ panels[j].h = panels[k].h
               /\ panels[j].edges = panels[k].edges
        /\ (pc = "done") => /\ Cardinality(Emitted("left side")) = 1
                            /\ Cardinality(Emitted("right side")) = 1

C8_Witness ==
    /\ pc = "done"
    /\ ~cfg.slope_top
    /\ cfg.outside
    /\ ~cfg.include_back
    /\ cfg.angle # 0
    /\ \A k \in Sides : panels[k].w = cfg.y /\ panels[k].kind = "rect"
    /\ Cardinality(Sides) = 2

(***************************************************************************)
(* The scenario of C9 and C10: x=400, y=100, h=300, num=3,                 *)
(* front_wall_height=20, include_back=false, slope_top=false, thickness=3. *)
(***************************************************************************)
Scenario(c, ang) ==
    /\ c.x = 400 * Scale /\ c.y = 100 * Scale /\ c.h = 300 * Scale
    /\ c.num = 3 /\ c.front_wall_height = 20 * Scale
    /\ ~c.include_back /\ ~c.slope_top /\ c.thickness = 3 * Scale
    /\ c.angle = ang

\* Equal up to the rounding of the fixed-point numbers.
Near(a, b) == Abs(a - b) <= 3

\* pos_y of the shelf seat of index idx on side panel k
SeatY(k, idx) == panels[k].holes[2 * idx + 1].y

\* pos_y of the same seat in the run of the scenario with angle ang
ScenarioSeatY(ang, idx) ==
    LET c == [cfg EXCEPT !.angle = ang]
    IN  PosY(c.thickness, ang, SlantLength(c, ResolveY(c)), c.h, c.num, idx)

(***************************************************************************)
(* C9.  As claimed: in the scenario, with angle -30 the pos_y of every     *)
(* shelf index is the pos_y of the angle 30 run at that index plus         *)
(* sin(30 deg) * slant_length (of either run).                             *)
(***************************************************************************)
C9_ShiftedUpFromPositiveAngle ==
    Scenario(cfg, -30) =>
        \A k \in Sides : \A idx \in 0 .. 2 :
            \/ Near(SeatY(k, idx), ScenarioSeatY(30, idx) + Mul(Sin(30), sl))
            \/ Near(SeatY(k, idx),
                    ScenarioSeatY(30, idx)
                      + Mul(Sin(30), SlantLength([cfg EXCEPT !.angle = 30],
                                                 ResolveY(cfg))))

(***************************************************************************)
(* C9, amended.  In the scenario, with angle -30 the pos_y of every shelf  *)
(* index i is hs - cos(a)*0.5*t + i*(h - |hs|)/(num - 0.5), taken with the *)
(* hs and the slant_length of the angle -30 run, plus                      *)
(* sin(30 deg) * slant_length; it lies below, not above, the pos_y of the  *)
(* angle 30 run at that index.                                             *)
(***************************************************************************)
C9_ShiftedUpFromUncorrectedAnchor ==
    Scenario(cfg, -30) =>
        \A k \in Sides : \A idx \in 0 .. 2 :
            /\ SeatY(k, idx) =
                   Hs(cfg.thickness, -30, sl)
                     - RDiv(Mul(Cos(-30), cfg.thickness), 2)
                     + RDiv(2 * idx * (cfg.h - Abs(Hs(cfg.thickness, -30, sl))),
                            2 * cfg.num - 1)
                     + Mul(Sin(30), sl)
            /\ SeatY(k, idx) < ScenarioSeatY(30, idx)

C9_Witness ==
    /\ Scenario(cfg, -30)
    /\ pc = "done"
    /\ Cardinality(Sides) = 2
    /\ \A k \in Sides : Len(panels[k].holes) = 6

(***************************************************************************)
(* C10.  On a side panel the pos_y of the shelf seats grows strictly with  *)
(* the shelf index whenever h > |hs|, in steps of (h - |hs|)/(num - 0.5);  *)
(* and in the scenario with angle 30 the topmost seat has                  *)
(* pos_y + slant_length * sin(30 deg) <= 300.                              *)
(***************************************************************************)
C10_SeatsIncreaseAndFit ==
    /\ \A k \in Sides :
           (cfg.h > Abs(Hs(cfg.thickness, cfg.angle, sl))) =>
               \A idx \in 0 .. cfg.num - 2 :
                   /\ SeatY(k, idx + 1) > SeatY(k, idx)
                   /\ Near(SeatY(k, idx + 1) - SeatY(k, idx),
                           RDiv(2 * (cfg.h - Abs(Hs(cfg.thickness, cfg.angle, sl))),
                                2 * cfg.num - 1))
    /\ Scenario(cfg, 30) =>
           \A k \in Sides :
               SeatY(k, 2) + Mul(sl, Sin(30)) <= 300 * Scale

C10_Witness ==
    /\ Scenario(cfg, 30)
    /\ pc = "done"
    /\ Cardinality(Sides) = 2
    /\ \A k \in Sides :
           /\ SeatY(k, 0) < SeatY(k, 1)
           /\ SeatY(k, 1) < SeatY(k, 2)
           /\ SeatY(k, 2) + Mul(sl, Sin(30)) > 299 * Scale


=============================================================================
